---- MODULE Spec2Model ----
(***************************************************************************)
(* A model of make_pdfs.py: the recipe validator (validate_recipe and the  *)
(* three step predicates), the per-file loader (create_recipe), the text   *)
(* substitutions of create_recipe_latex_file and the batch loop of main.   *)
(*                                                                         *)
(* Python values are modelled as follows.  A dict is a function whose      *)
(* DOMAIN is its key set (`k in d` is k \in DOMAIN d, len(d) is the        *)
(* cardinality of the domain).  A text is a sequence of one-character      *)
(* strings and `steps` is a sequence of step dicts, so that the empty      *)
(* sequence is the falsy value of every field (an empty string, an empty   *)
(* list or null).                                                          *)
(*                                                                         *)
(* The regular-expression replacement templates of lines 165-166 are read  *)
(* as Python 3.6 reads them (an unknown escape such as \d is kept as it    *)
(* is); later Python versions reject these templates.                      *)
(***************************************************************************)
EXTENDS Integers, Sequences, FiniteSets, TLC

\* ------------------------------------------------------------------ bounds
MaxSteps == 2
MaxLen == 4
MaxFiles == 2

VARIABLES
    pc,         \* position of the program
    recipe,     \* the record being processed (or NoRecipe)
    src_dir,    \* args.src_dir, a path
    isfile,     \* the set of paths at which the file system holds a file
    errors,     \* the defect list returned by validate_recipe
    latex_file_content,  \* the markup template_recipe returned
    file_content,        \* the text create_recipe_latex_file wrote
    nfiles,     \* the number of files os.walk yields
    idx,        \* the position of the loop in the traversal order
    cur,        \* the file the loop handled last
    printed,    \* what print_file_error printed for that file ("" if nothing)
    rc,         \* the return code of the last run of the compiler
    temp_dest,  \* the scratch output tree: whether it exists, and its documents
    dest,       \* the destination tree: whether it exists, and its documents
    final_copy, \* whether lines 228-230 were reached
    exit_status,\* the exit status of the process (-1 while it runs)
    expected    \* the documents of the valid recipe files scanned so far

fileVars == <<recipe, errors, latex_file_content, file_content>>
batchVars == <<nfiles, idx, cur, printed, rc, temp_dest, dest, final_copy, exit_status, expected>>
vars == <<pc, src_dir, isfile, fileVars, batchVars>>

\* ------------------------------------------------------- python primitives
\* The record a test of `recipe is None` finds.
NoRecipe == [none |-> TRUE]

\* bool(d[k]): the empty sequence is falsy.
Truthy(d, k) == d[k] # <<>>

\* A truthy text.
SomeText == <<"v">>

RECURSIVE SeqsUpTo(_, _)
SeqsUpTo(S, n) ==
    IF n = 0 THEN {<<>>}
    ELSE LET shorter == SeqsUpTo(S, n - 1)
         IN  shorter \cup {Append(s, x) : s \in {t \in shorter : Len(t) = n - 1}, x \in S}

\* Every dict over keys K with values in V.
Dicts(K, V) == UNION {[D -> V] : D \in SUBSET K}

\* ------------------------------------------------------------- path algebra
\* Paths are sequences of characters.
Slash == "/"

\* os.path.join(a, b) on POSIX: an absolute b replaces a.
PathJoin(a, b) ==
    IF Len(b) > 0 /\ b[1] = Slash THEN b
    ELSE IF Len(a) = 0 \/ a[Len(a)] = Slash THEN a \o b
    ELSE a \o <<Slash>> \o b

\* The components of a path: the maximal runs of characters other than "/".
RECURSIVE Components(_, _, _)
Components(p, i, acc) ==
    IF i > Len(p) THEN (IF acc = <<>> THEN <<>> ELSE <<acc>>)
    ELSE IF p[i] = Slash
         THEN (IF acc = <<>> THEN <<>> ELSE <<acc>>) \o Components(p, i + 1, <<>>)
         ELSE Components(p, i + 1, Append(acc, p[i]))

\* os.path.normpath on the components of an absolute path: "." is dropped and
\* ".." removes the component before it (and is dropped at the root).
RECURSIVE NormComponents(_, _)
NormComponents(cs, out) ==
    IF cs = <<>> THEN out
    ELSE IF Head(cs) = <<".">> THEN NormComponents(Tail(cs), out)
    ELSE IF Head(cs) = <<".", ".">>
         THEN NormComponents(Tail(cs), IF out = <<>> THEN out ELSE SubSeq(out, 1, Len(out) - 1))
         ELSE NormComponents(Tail(cs), Append(out, Head(cs)))

RECURSIVE Absolute(_)
Absolute(cs) == IF cs = <<>> THEN <<>> ELSE <<Slash>> \o Head(cs) \o Absolute(Tail(cs))

\* The working directory of the process after os.chdir(temp_dir).
Cwd == <<"/", "t">>

\* os.path.abspath(p): join with the working directory, then normalise.
AbsPath(p) ==
    LET cs == NormComponents(Components(PathJoin(Cwd, p), 1, <<>>), <<>>)
    IN  IF cs = <<>> THEN <<Slash>> ELSE Absolute(cs)

\* ------------------------------------------------------------ the validator
\* create_invalid_step_error: the message carries a dump of the whole step.
create_invalid_step_error(step_type, step) ==
    [msg |-> "invalid step", type |-> step_type, step |-> step]

section_step_is_valid(step) ==
    Truthy(step, "section") /\ Cardinality(DOMAIN step) = 1

\* A variant that only asks for `text` to be present.
ingredients_step_is_valid_TextPresent(step) ==
    /\ Truthy(step, "ingredients")
    /\ "text" \in DOMAIN step
    /\ Cardinality(DOMAIN step) = 2

ingredients_step_is_valid(step) ==
    /\ Truthy(step, "ingredients")
    /\ "text" \in DOMAIN step
    /\ Truthy(step, "text")
    /\ Cardinality(DOMAIN step) = 2

text_step_is_valid(step) ==
    Truthy(step, "text") /\ Cardinality(DOMAIN step) = 1

required_keys == <<"name", "steps">>
optional_keys == <<"servings", "time", "image", "notes">>

\* A variant that only reports a missing key, not a falsy one.
RECURSIVE RequiredErrors_MissingOnly(_, _)
RequiredErrors_MissingOnly(r, i) ==
    IF i > Len(required_keys) THEN <<>>
    ELSE LET key == required_keys[i]
         IN  (IF key \notin DOMAIN r
                 THEN <<[msg |-> "required key missing", key |-> key]>>
              ELSE <<>>) \o RequiredErrors_MissingOnly(r, i + 1)

\* Lines 74-78: one defect per required key that is missing or falsy.
RECURSIVE RequiredErrors(_, _)
RequiredErrors(r, i) ==
    IF i > Len(required_keys) THEN <<>>
    ELSE LET key == required_keys[i]
         IN  (IF key \notin DOMAIN r
                 THEN <<[msg |-> "required key missing", key |-> key]>>
              ELSE IF ~Truthy(r, key)
                 THEN <<[msg |-> "key must be defined", key |-> key]>>
              ELSE <<>>) \o RequiredErrors(r, i + 1)

\* A variant that tests for `ingredients` before `section`.
StepErrors_IngredientsFirst(step) ==
    IF "ingredients" \in DOMAIN step
       THEN (IF ~ingredients_step_is_valid(step)
                THEN <<create_invalid_step_error("ingredients", step)>> ELSE <<>>)
    ELSE IF "section" \in DOMAIN step
       THEN (IF ~section_step_is_valid(step)
                THEN <<create_invalid_step_error("section", step)>> ELSE <<>>)
    ELSE IF "text" \in DOMAIN step
       THEN (IF ~text_step_is_valid(step)
                THEN <<create_invalid_step_error("text", step)>> ELSE <<>>)
    ELSE <<>>

\* Lines 82-90: the defects of one step.
StepErrors(step) ==
    IF "section" \in DOMAIN step
       THEN (IF ~section_step_is_valid(step)
                THEN <<create_invalid_step_error("section", step)>> ELSE <<>>)
    ELSE IF "ingredients" \in DOMAIN step
       THEN (IF ~ingredients_step_is_valid(step)
                THEN <<create_invalid_step_error("ingredients", step)>> ELSE <<>>)
    ELSE IF "text" \in DOMAIN step
       THEN (IF ~text_step_is_valid(step)
                THEN <<create_invalid_step_error("text", step)>> ELSE <<>>)
    ELSE <<>>

\* Lines 81-90: the loop over recipe['steps'].
RECURSIVE StepsErrors(_, _)
StepsErrors(steps, i) ==
    IF i > Len(steps) THEN <<>>
    ELSE StepErrors(steps[i]) \o StepsErrors(steps, i + 1)

\* Lines 92-94.
RECURSIVE OptionalErrors(_, _)
OptionalErrors(r, i) ==
    IF i > Len(optional_keys) THEN <<>>
    ELSE LET key == optional_keys[i]
         IN  (IF key \in DOMAIN r /\ ~Truthy(r, key)
                 THEN <<[msg |-> "optional key exists but must be defined", key |-> key]>>
              ELSE <<>>) \o OptionalErrors(r, i + 1)

\* Lines 96-99.
ImageErrors(r, dir, files) ==
    IF "image" \in DOMAIN r /\ Truthy(r, "image")
       THEN LET image == AbsPath(PathJoin(dir, r["image"]))
            IN  IF image \notin files
                   THEN <<[msg |-> "image file does not exist", image |-> image]>>
                   ELSE <<>>
       ELSE <<>>

\* A variant that returns as soon as a required field is at fault.
validate_recipe_FailFast(r, dir, files) ==
    LET required == RequiredErrors(r, 1)
    IN  IF required # <<>> THEN required
        ELSE StepsErrors(r["steps"], 1) \o OptionalErrors(r, 1) \o ImageErrors(r, dir, files)

validate_recipe(r, dir, files) ==
    LET required == RequiredErrors(r, 1)
        steps    == IF required = <<>> THEN StepsErrors(r["steps"], 1) ELSE <<>>
    IN  required \o steps \o OptionalErrors(r, 1) \o ImageErrors(r, dir, files)

\* ------------------------------------------------------------ the renderer
Backslash == "\\"
IsDigit(c) == c \in {"0", "1", "2", "3", "4", "5", "6", "7", "8", "9"}
\* What \s matches.
IsSpace(c) == c \in {" ", "\t", "\n", "\r", "\f"}

\* The last index of the run of digits that starts at i.
RECURSIVE DigitsEnd(_, _)
DigitsEnd(t, i) ==
    IF i < Len(t) /\ IsDigit(t[i + 1]) THEN DigitsEnd(t, i + 1) ELSE i

Nicefrac(n, d) ==
    <<Backslash, "n", "i", "c", "e", "f", "r", "a", "c", "{">> \o n \o <<"}", "{">> \o d \o <<"}">>
Degree == <<Backslash, "d", "e", "g", "r", "e", "e">>
\* The template '\\degree\\\\ ' after the escapes of the replacement are read:
\* the macro, one backslash and one space.
DegreeSpace == Degree \o <<Backslash, " ">>

\* Line 163: re.sub(r'(\d+)/(\d+)', r'\\nicefrac{\1}{\2}', t), scanning from i.
RECURSIVE SubFraction(_, _)
SubFraction(t, i) ==
    IF i > Len(t) THEN <<>>
    ELSE LET j == DigitsEnd(t, i)
         IN  IF IsDigit(t[i]) /\ j + 2 <= Len(t) /\ t[j + 1] = Slash /\ IsDigit(t[j + 2])
                THEN LET k == DigitsEnd(t, j + 2)
                     IN  Nicefrac(SubSeq(t, i, j), SubSeq(t, j + 2, k)) \o SubFraction(t, k + 1)
                ELSE <<t[i]>> \o SubFraction(t, i + 1)

IsMarkerAt(t, i) == i < Len(t) /\ t[i] = Backslash /\ t[i + 1] = "0"

\* Line 165: re.sub(r'\\0\s', '\\degree\\\\ ', t), scanning from i.
RECURSIVE SubDegreeSpace(_, _)
SubDegreeSpace(t, i) ==
    IF i > Len(t) THEN <<>>
    ELSE IF IsMarkerAt(t, i) /\ i + 2 <= Len(t) /\ IsSpace(t[i + 2])
         THEN DegreeSpace \o SubDegreeSpace(t, i + 3)
         ELSE <<t[i]>> \o SubDegreeSpace(t, i + 1)

\* Line 166: re.sub(r'\\0', '\\degree', t), scanning from i.
RECURSIVE SubDegree(_, _)
SubDegree(t, i) ==
    IF i > Len(t) THEN <<>>
    ELSE IF IsMarkerAt(t, i)
         THEN Degree \o SubDegree(t, i + 2)
         ELSE <<t[i]>> \o SubDegree(t, i + 1)

\* A variant that applies the bare rule before the whitespace rule.
create_recipe_latex_file_BareFirst(t) ==
    SubDegreeSpace(SubDegree(SubFraction(t, 1), 1), 1)

\* Lines 163-169: the text create_recipe_latex_file writes.
create_recipe_latex_file(t) ==
    SubDegree(SubDegreeSpace(SubFraction(t, 1), 1), 1)

\* recipe.tex.j2, as the design describes its output: the image inclusion,
\* the header (name, servings, time), one block per step and the notes.
Newline == "\n"
Field(r, k) == IF k \in DOMAIN r THEN r[k] ELSE <<>>
IsInteger(t) == t # <<>> /\ \A i \in DOMAIN t : IsDigit(t[i])

ImageBlock(r) ==
    IF "image" \in DOMAIN r THEN <<"{">> \o r["image"] \o <<"}", Newline>> ELSE <<>>

HeaderBlock(r) ==
    LET servings == Field(r, "servings")
    IN  r["name"] \o <<Newline>>
        \o (IF IsInteger(servings) THEN servings \o <<" ", "s">> ELSE servings)
        \o <<"&">> \o Field(r, "time") \o <<Newline>>

StepBlock(step) ==
    IF "section" \in DOMAIN step THEN step["section"] \o <<Newline>>
    ELSE IF "ingredients" \in DOMAIN step
         THEN step["ingredients"] \o <<"&">> \o Field(step, "text") \o <<Newline>>
    ELSE IF "text" \in DOMAIN step THEN step["text"] \o <<Newline>>
    ELSE <<>>

RECURSIVE StepBlocks(_, _)
StepBlocks(steps, i) ==
    IF i > Len(steps) THEN <<>> ELSE StepBlock(steps[i]) \o StepBlocks(steps, i + 1)

NotesBlock(r) == IF "notes" \in DOMAIN r THEN r["notes"] \o <<Newline>> ELSE <<>>

template_recipe(r) ==
    ImageBlock(r) \o HeaderBlock(r) \o StepBlocks(r["steps"], 1) \o NotesBlock(r)

\* Lines 131-134: the image of a valid recipe is made absolute.
ResolvedRecipe(r, dir) ==
    IF "image" \in DOMAIN r
       THEN [r EXCEPT !["image"] = AbsPath(PathJoin(dir, r["image"]))]
       ELSE r

\* ------------------------------------------------------------ input domains
EmptyDict == [k \in {} |-> <<>>]

\* The keys a step may carry: the three of the schema and one foreign key.
StepKeys == {"section", "ingredients", "text", "extra"}

\* Every step over StepKeys; each schema key is absent, falsy or truthy.
Steps == {s \in Dicts(StepKeys, {<<>>, SomeText}) : "extra" \in DOMAIN s => s["extra"] = SomeText}

TextStep == [text |-> SomeText]
BadSectionStep == [section |-> SomeText, text |-> SomeText]
SampleSteps == {TextStep, BadSectionStep}

SrcDirs == {<<"/", "r">>, <<"/", "1", "/", "2">>}
Images == {<<"p">>, <<"1", "/", "p">>}
ImagePaths == {AbsPath(PathJoin(d, i)) : d \in SrcDirs, i \in Images}

NameParts == {EmptyDict, [name |-> <<>>], [name |-> SomeText]}
ImageParts == {EmptyDict, [image |-> <<>>]} \cup {[image |-> i] : i \in Images}
OptionalParts == Dicts({"servings", "time", "notes"}, {<<>>, SomeText})

\* Recipes that vary the steps: every list of at most MaxSteps steps.
StepRecipes ==
    {[name |-> SomeText] @@ [steps |-> l] : l \in SeqsUpTo(Steps, MaxSteps)}

\* Recipes that vary the top-level fields.
FieldRecipes ==
    {n @@ st @@ o @@ i :
        n \in NameParts,
        st \in {EmptyDict} \cup {[steps |-> l] : l \in SeqsUpTo(SampleSteps, MaxSteps)},
        o \in OptionalParts,
        i \in ImageParts}

Recipes == StepRecipes \cup FieldRecipes

\* ------------------------------------------- specification of the validator
\* The batch does not run in the specifications of single functions.
NoFile == [rel |-> <<>>, name |-> "none", load |-> "none", value |-> NoRecipe]
NoTree == [exists |-> FALSE, docs |-> {}]
BatchIdle ==
    /\ nfiles = 0
    /\ idx = 0
    /\ cur = NoFile
    /\ printed = ""
    /\ rc = 0
    /\ temp_dest = NoTree
    /\ dest = NoTree
    /\ final_copy = FALSE
    /\ exit_status = -1
    /\ expected = {}

InitValidate ==
    /\ pc = "validate"
    /\ recipe \in Recipes
    /\ src_dir \in SrcDirs
    /\ isfile \in {{}, ImagePaths}
    /\ errors = <<>>
    /\ latex_file_content = <<>>
    /\ file_content = <<>>
    /\ BatchIdle

Validate ==
    /\ pc = "validate"
    /\ errors' = validate_recipe(recipe, src_dir, isfile)
    /\ pc' = "validated"
    /\ UNCHANGED <<recipe, src_dir, isfile, latex_file_content, file_content, batchVars>>

NextValidate == Validate

SpecValidate == InitValidate /\ [][NextValidate]_vars

\* -------------------------------------------- specification of the renderer
Alphabet == {Backslash, "0", "1", Slash, " ", Newline, "a"}
Texts == SeqsUpTo(Alphabet, MaxLen) \ {<<>>}

\* Valid recipes: one text step, with or without an image that exists.
LatexRecipes ==
    {[name |-> SomeText, steps |-> <<[text |-> t]>>] @@ i :
        t \in Texts, i \in {EmptyDict} \cup {[image |-> im] : im \in Images}}

InitLatex ==
    /\ pc = "loaded"
    /\ recipe \in LatexRecipes
    /\ src_dir \in SrcDirs
    /\ isfile = ImagePaths
    /\ errors = <<>>
    /\ latex_file_content = <<>>
    /\ file_content = <<>>
    /\ BatchIdle

\* create_recipe, lines 125-134, on a recipe without defects.
ResolveImage ==
    /\ pc = "loaded"
    /\ validate_recipe(recipe, src_dir, isfile) = <<>>
    /\ recipe' = ResolvedRecipe(recipe, src_dir)
    /\ pc' = "recipe"
    /\ UNCHANGED <<src_dir, isfile, errors, latex_file_content, file_content, batchVars>>

\* main, line 213.
Template ==
    /\ pc = "recipe"
    /\ latex_file_content' = template_recipe(recipe)
    /\ pc' = "templated"
    /\ UNCHANGED <<recipe, src_dir, isfile, errors, file_content, batchVars>>

\* main, line 215.
WriteLatex ==
    /\ pc = "templated"
    /\ file_content' = create_recipe_latex_file(latex_file_content)
    /\ pc' = "written"
    /\ UNCHANGED <<recipe, src_dir, isfile, errors, latex_file_content, batchVars>>

NextLatex == ResolveImage \/ Template \/ WriteLatex

SpecLatex == InitLatex /\ [][NextLatex]_vars

\* ------------------------------------------------ specification of the batch
\* `sub in s` on strings.
Contains(t, sub) ==
    \E i \in 1..(Len(t) - Len(sub) + 1) : SubSeq(t, i, i + Len(sub) - 1) = sub

\* s.replace(old, new): every occurrence, left to right.
RECURSIVE Replace(_, _, _, _)
Replace(t, old, new, i) ==
    IF i > Len(t) THEN <<>>
    ELSE IF i + Len(old) - 1 <= Len(t) /\ SubSeq(t, i, i + Len(old) - 1) = old
         THEN new \o Replace(t, old, new, i + Len(old))
         ELSE <<t[i]>> \o Replace(t, old, new, i + 1)

ImagesName == <<"i", "m", "a", "g", "e", "s">>
\* Line 189: os.path.join(temp_dir, 'temp_dest') + os.sep.
TempDest == PathJoin(Cwd, <<"d">>) \o <<Slash>>

\* The directories below src_dir that os.walk visits, as suffixes of src_dir.
RelDirs == {<<>>, <<Slash, "s">>, <<Slash>> \o ImagesName, <<Slash, "r">>}

\* The recipes of the batch: every required field missing, falsy or set, a
\* valid step, an invalid step or a step without a schema key, and an image.
BatchRecipes ==
    {n @@ st :
        n \in NameParts,
        st \in {EmptyDict} \cup {[steps |-> l] : l \in {<<>>, <<TextStep>>, <<BadSectionStep>>, <<EmptyDict>>}}}
    \cup {[name |-> SomeText, steps |-> <<TextStep>>, image |-> <<"p">>],
          [steps |-> <<TextStep>>, image |-> <<"p">>]}

\* A file of the tree: its directory, the kind of its name, what loading it
\* does (a scanner error, another exception, or the value yaml.load returns;
\* an empty document loads as None).
FileUniverse ==
    {[rel |-> d, name |-> n, load |-> "value", value |-> NoRecipe] :
        d \in RelDirs, n \in {"hidden", "other"}}
    \cup {[rel |-> d, name |-> "yml", load |-> l, value |-> NoRecipe] :
        d \in RelDirs, l \in {"scanner", "exception", "value"}}
    \cup {[rel |-> d, name |-> "yml", load |-> "value", value |-> r] :
        d \in RelDirs, r \in BatchRecipes}

dirpath(f) == src_dir \o f.rel

\* Line 193.
InImagesDir(f) == Contains(dirpath(f), ImagesName)
\* Lines 200-204.
IsHidden(f) == f.name = "hidden"
IsYaml(f) == f.name = "yml"
Scanned(f) == ~InImagesDir(f) /\ ~IsHidden(f) /\ IsYaml(f)

\* Line 196.
pdf_temp_dest(f) == Replace(dirpath(f), src_dir, TempDest, 1)

\* create_recipe, lines 115-134: what it returns, prints and raises.
create_recipe(f, dir, files) ==
    IF f.load = "scanner"
       THEN [result |-> NoRecipe, errors |-> <<>>, printed |-> "Not valid YAML", raises |-> FALSE]
    ELSE IF f.load = "exception"
       THEN [result |-> NoRecipe, errors |-> <<>>, printed |-> "Exception for file", raises |-> FALSE]
    ELSE IF f.value = NoRecipe
       \* `key not in recipe` on None, outside the try block
       THEN [result |-> NoRecipe, errors |-> <<>>, printed |-> "", raises |-> TRUE]
    ELSE LET recipe_errors == validate_recipe(f.value, dir, files)
         IN  IF recipe_errors # <<>>
                THEN [result |-> NoRecipe, errors |-> recipe_errors,
                      printed |-> "Invalid recipe", raises |-> FALSE]
                ELSE [result |-> ResolvedRecipe(f.value, dir), errors |-> <<>>,
                      printed |-> "", raises |-> FALSE]

\* A variant that ignores the return code.
CompilerFailed_Ignored(returncode) == FALSE

\* Line 219.
CompilerFailed(returncode) == returncode # 0

\* The document of a scanned file, where the design puts it: the directory of
\* the source file relative to src_dir.
MirrorDoc(f, i) == [dir |-> Components(f.rel, 1, <<>>), name |-> i]

\* shutil.copytree(temp_dest, dest_dir): each document at its path below temp_dest.
CopiedTree(docs) ==
    {[dir |-> SubSeq(Components(d.dir, 1, <<>>),
                     Len(Components(TempDest, 1, <<>>)) + 1,
                     Len(Components(d.dir, 1, <<>>))),
      name |-> d.name] : d \in docs}

OldTree == [exists |-> TRUE, docs |-> {[dir |-> <<>>, name |-> 0]}]

Init ==
    /\ pc = "walk"
    /\ src_dir \in SrcDirs
    /\ isfile \in {{}, ImagePaths}
    /\ recipe = NoRecipe
    /\ errors = <<>>
    /\ latex_file_content = <<>>
    /\ file_content = <<>>
    /\ nfiles \in 0..MaxFiles
    /\ idx = 1
    /\ cur = NoFile
    /\ printed = ""
    /\ rc = 0
    /\ temp_dest = NoTree
    /\ dest \in {NoTree, OldTree}
    /\ final_copy = FALSE
    /\ exit_status = -1
    /\ expected = {}

AtFile == pc = "walk" /\ idx <= nfiles

\* Lines 193-194, 200-201, 202-204: the file is not scanned.
SkipFile ==
    /\ AtFile
    /\ \E f \in FileUniverse :
          /\ ~Scanned(f)
          /\ cur' = f
          /\ printed' = IF ~InImagesDir(f) /\ ~IsHidden(f) THEN "Not YAML file" ELSE ""
    /\ idx' = idx + 1
    /\ UNCHANGED <<pc, src_dir, isfile, fileVars, nfiles, rc, temp_dest, dest,
                   final_copy, exit_status, expected>>

\* Lines 206-208: create_recipe returns None and the loop continues.
SkipRecipe ==
    /\ AtFile
    /\ \E f \in FileUniverse :
          LET r == create_recipe(f, src_dir, isfile)
          IN  /\ Scanned(f)
              /\ ~r.raises
              /\ r.result = NoRecipe
              /\ cur' = f
              /\ printed' = r.printed
              /\ errors' = r.errors
              /\ recipe' = r.result
    /\ idx' = idx + 1
    /\ UNCHANGED <<pc, src_dir, isfile, latex_file_content, file_content, nfiles, rc,
                   temp_dest, dest, final_copy, exit_status, expected>>

\* Line 206: create_recipe raises; the exception ends the process.
LoadRaises ==
    /\ AtFile
    /\ \E f \in FileUniverse :
          /\ Scanned(f)
          /\ create_recipe(f, src_dir, isfile).raises
          /\ cur' = f
    /\ pc' = "crashed"
    /\ exit_status' = 1
    /\ printed' = ""
    /\ UNCHANGED <<src_dir, isfile, fileVars, nfiles, idx, rc, temp_dest, dest,
                   final_copy, expected>>

\* Lines 206-211: create_recipe returns a recipe.
LoadRecipe ==
    /\ AtFile
    /\ \E f \in FileUniverse :
          LET r == create_recipe(f, src_dir, isfile)
          IN  /\ Scanned(f)
              /\ ~r.raises
              /\ r.result # NoRecipe
              /\ cur' = f
              /\ printed' = r.printed
              /\ errors' = r.errors
              /\ recipe' = r.result
              /\ expected' = expected \cup {MirrorDoc(f, idx)}
    /\ pc' = "recipe"
    /\ UNCHANGED <<src_dir, isfile, latex_file_content, file_content, nfiles, idx, rc,
                   temp_dest, dest, final_copy, exit_status>>

\* Lines 217-221: the compiler fails and the process exits.
CompileFails ==
    /\ pc = "written"
    /\ \E returncode \in {0, 1} :
          /\ CompilerFailed(returncode)
          /\ rc' = returncode
    /\ pc' = "aborted"
    /\ exit_status' = 1
    /\ UNCHANGED <<src_dir, isfile, fileVars, nfiles, idx, cur, printed, temp_dest, dest,
                   final_copy, expected>>

\* Lines 217-226: the compiler succeeds and the document is copied to the
\* scratch tree.
CompileSucceeds ==
    /\ pc = "written"
    /\ \E returncode \in {0, 1} :
          /\ ~CompilerFailed(returncode)
          /\ rc' = returncode
    /\ temp_dest' = [exists |-> TRUE,
                     docs |-> temp_dest.docs \cup
                                 {[dir |-> AbsPath(pdf_temp_dest(cur)), name |-> idx]}]
    /\ idx' = idx + 1
    /\ pc' = "walk"
    /\ UNCHANGED <<src_dir, isfile, fileVars, nfiles, cur, printed, dest, final_copy,
                   exit_status, expected>>

\* Lines 228-230, the scratch tree exists: it replaces the destination.
FinishCopies ==
    /\ pc = "walk"
    /\ idx > nfiles
    /\ temp_dest.exists
    /\ dest' = [exists |-> TRUE, docs |-> CopiedTree(temp_dest.docs)]
    /\ final_copy' = TRUE
    /\ pc' = "done"
    /\ exit_status' = 0
    /\ UNCHANGED <<src_dir, isfile, fileVars, nfiles, idx, cur, printed, rc, temp_dest,
                   expected>>

\* Lines 228-230, no scratch tree: the destination is removed and copytree
\* raises.
FinishRaises ==
    /\ pc = "walk"
    /\ idx > nfiles
    /\ ~temp_dest.exists
    /\ dest' = NoTree
    /\ final_copy' = TRUE
    /\ pc' = "crashed"
    /\ exit_status' = 1
    /\ UNCHANGED <<src_dir, isfile, fileVars, nfiles, idx, cur, printed, rc, temp_dest,
                   expected>>

Next ==
    \/ SkipFile
    \/ SkipRecipe
    \/ LoadRaises
    \/ LoadRecipe
    \/ Template
    \/ WriteLatex
    \/ CompileFails
    \/ CompileSucceeds
    \/ FinishCopies
    \/ FinishRaises

Spec == Init /\ [][Next]_vars

\* ----------------------------------------------------- claims on the renderer
Written == pc = "written"

\* The number of positions at which the text holds a raw \0 marker.
Markers(t) == {i \in DOMAIN t : IsMarkerAt(t, i)}
NoRawMarker(t) == Markers(t) = {}

\* The number of positions at which the text holds the degree macro.
DegreeMacros(t) ==
    {i \in DOMAIN t : i + Len(Degree) - 1 <= Len(t) /\ SubSeq(t, i, i + Len(Degree) - 1) = Degree}

\* One pass over the text that rewrites each marker: `spaced` where a
\* whitespace character follows (which is consumed), the macro alone elsewhere.
RECURSIVE RewriteMarkers(_, _, _)
RewriteMarkers(t, i, spaced) ==
    IF i > Len(t) THEN <<>>
    ELSE IF i < Len(t) /\ t[i] = Backslash /\ t[i + 1] = "0"
         THEN IF i + 2 <= Len(t) /\ IsSpace(t[i + 2])
                 THEN spaced \o RewriteMarkers(t, i + 3, spaced)
                 ELSE Degree \o RewriteMarkers(t, i + 2, spaced)
         ELSE <<t[i]>> \o RewriteMarkers(t, i + 1, spaced)

\* The macro, a forced line break (two backslashes) and a space.
DegreeLineBreak == Degree \o <<Backslash, Backslash, " ">>

\* C8 as stated: every marker of the assembled markup is rewritten, a marker
\* before whitespace to the macro, a forced line break and one space, every
\* other to the macro alone, and no raw marker is left.
C8_AsStated ==
    Written =>
        /\ file_content = RewriteMarkers(SubFraction(latex_file_content, 1), 1, DegreeLineBreak)
        /\ Cardinality(DegreeMacros(file_content)) = Cardinality(Markers(latex_file_content))
        /\ NoRawMarker(file_content)

\* C8, amended: every marker left by the fraction rewriting is rewritten, a
\* marker before whitespace to the macro, one backslash and one space (the
\* whitespace is consumed), every other to the macro alone, and the written
\* text holds no raw marker.
C8_MarkersRewritten ==
    Written =>
        /\ file_content = RewriteMarkers(SubFraction(latex_file_content, 1), 1, DegreeSpace)
        /\ Cardinality(DegreeMacros(file_content))
              = Cardinality(Markers(SubFraction(latex_file_content, 1)))
        /\ NoRawMarker(file_content)

\* A markup with a marker before a non-space and a marker before whitespace.
C8_Witness ==
    /\ Written
    /\ \E i \in DOMAIN latex_file_content :
          /\ IsMarkerAt(latex_file_content, i)
          /\ IsMarkerAt(latex_file_content, i + 2)
          /\ IsSpace(latex_file_content[i + 4])
    /\ Cardinality(DegreeMacros(file_content)) = 2
    /\ Contains(file_content, DegreeSpace)

\* C9: the written markup references the image of a valid recipe by exactly
\* its resolved absolute path.
C9_ImagePathKept ==
    (Written /\ "image" \in DOMAIN recipe) =>
        /\ recipe["image"] \in ImagePaths
        /\ SubSeq(file_content, 1, Len(ImageBlock(recipe))) = ImageBlock(recipe)

\* ---------------------------------------------------- claims on the validator
\* The three shapes of the data model, stated on the key set and the values.
IsSectionShape(step) == DOMAIN step = {"section"} /\ step["section"] # <<>>
IsIngredientsShape(step) ==
    DOMAIN step = {"ingredients", "text"} /\ step["ingredients"] # <<>> /\ step["text"] # <<>>
IsTextShape(step) == DOMAIN step = {"text"} /\ step["text"] # <<>>
WellShaped(step) == IsSectionShape(step) \/ IsIngredientsShape(step) \/ IsTextShape(step)

IsStepDefect(e) == e.msg = "invalid step"
IsRequiredDefect(e) == e.msg \in {"required key missing", "key must be defined"}

Validated == pc = "validated"
HasSteps == "steps" \in DOMAIN recipe
StepsChecked == Validated /\ ~\E i \in DOMAIN errors : IsRequiredDefect(errors[i])

\* The defects that dump the given step, and the positions at which it occurs.
DefectsOf(step) == {i \in DOMAIN errors : IsStepDefect(errors[i]) /\ errors[i].step = step}
Occurrences(step) == {i \in DOMAIN recipe["steps"] : recipe["steps"][i] = step}

\* C2: whenever validate_recipe returns no defect, every step of the recipe
\* matches one of the three shapes.
C2_NoDefectsMeansWellShaped ==
    (Validated /\ errors = <<>>) =>
        \A i \in DOMAIN recipe["steps"] : WellShaped(recipe["steps"][i])

\* C3: a checked step carrying `ingredients` and no `section` gets no defect
\* iff it is exactly {ingredients, text} with both truthy; otherwise it gets
\* an 'invalid ingredients step' defect.
C3_IngredientsRule ==
    StepsChecked =>
        \A i \in DOMAIN recipe["steps"] :
            LET step == recipe["steps"][i]
            IN  ("ingredients" \in DOMAIN step /\ "section" \notin DOMAIN step) =>
                    /\ (DefectsOf(step) = {}) <=> IsIngredientsShape(step)
                    /\ \A d \in DefectsOf(step) : errors[d].type = "ingredients"

C3_Witness ==
    /\ StepsChecked
    /\ \E i \in DOMAIN recipe["steps"] :
          /\ DOMAIN recipe["steps"][i] = {"ingredients", "text", "extra"}
          /\ DefectsOf(recipe["steps"][i]) # {}
    /\ \E i \in DOMAIN recipe["steps"] :
          /\ IsIngredientsShape(recipe["steps"][i])
          /\ DefectsOf(recipe["steps"][i]) = {}

\* C4: a checked step carrying `section` is judged by the section rule only:
\* exactly {section} truthy gets no defect; anything else carrying `section`
\* gets exactly one 'invalid section step' defect per occurrence and no
\* ingredients or text defect.
C4_SectionPriority ==
    StepsChecked =>
        \A i \in DOMAIN recipe["steps"] :
            LET step == recipe["steps"][i]
            IN  "section" \in DOMAIN step =>
                    /\ IsSectionShape(step) => DefectsOf(step) = {}
                    /\ ~IsSectionShape(step) =>
                           Cardinality(DefectsOf(step)) = Cardinality(Occurrences(step))
                    /\ \A d \in DefectsOf(step) : errors[d].type = "section"

C4_Witness ==
    /\ StepsChecked
    /\ \E i \in DOMAIN recipe["steps"] :
          /\ DOMAIN recipe["steps"][i] = {"section", "ingredients", "text"}
          /\ \A k \in DOMAIN recipe["steps"][i] : recipe["steps"][i][k] # <<>>
          /\ Cardinality(DefectsOf(recipe["steps"][i])) = 1

\* A step that fails the rule of the shape it is classified as.
Offending(step) ==
    IF "section" \in DOMAIN step THEN ~IsSectionShape(step)
    ELSE IF "ingredients" \in DOMAIN step THEN ~IsIngredientsShape(step)
    ELSE IF "text" \in DOMAIN step THEN ~IsTextShape(step)
    ELSE FALSE

StepDefects == SelectSeq(errors, IsStepDefect)
OffendingSteps == SelectSeq(recipe["steps"], Offending)

EmptyOptional(key) == key \in DOMAIN recipe /\ recipe[key] = <<>>
MissingImage ==
    /\ "image" \in DOMAIN recipe
    /\ recipe["image"] # <<>>
    /\ AbsPath(PathJoin(src_dir, recipe["image"])) \notin isfile

\* C10: with a required-field defect no step defect is emitted, yet the
\* optional-field and image checks still add theirs; without one, the step
\* defects are exactly the offending steps, one each, in step order.
C10_ShortCircuit ==
    Validated =>
        /\ ~StepsChecked => StepDefects = <<>>
        /\ StepsChecked =>
              /\ Len(StepDefects) = Len(OffendingSteps)
              /\ \A i \in DOMAIN StepDefects : StepDefects[i].step = OffendingSteps[i]
        /\ \A key \in {"servings", "time", "image", "notes"} :
              EmptyOptional(key) <=>
                 \E i \in DOMAIN errors :
                    errors[i] = [msg |-> "optional key exists but must be defined", key |-> key]
        /\ MissingImage <=> \E i \in DOMAIN errors : errors[i].msg = "image file does not exist"

C10_Witness ==
    /\ Validated
    /\ ~StepsChecked
    /\ HasSteps
    /\ \E i \in DOMAIN recipe["steps"] : Offending(recipe["steps"][i])
    /\ EmptyOptional("notes")
    /\ MissingImage
    /\ Len(errors) >= 3

\* -------------------------------------------------------- claims on the batch
\* The current file was read as a recipe record (a mapping).
CurIsRecord == cur.load = "value" /\ cur.value # NoRecipe
BadRequired(key) == key \notin DOMAIN cur.value \/ cur.value[key] = <<>>
Rendering == pc \in {"recipe", "templated", "written"}
Stopped == exit_status # -1

\* C1: a scanned record whose `name` or `steps` is missing or falsy gets a
\* defect naming that field, create_recipe returns None for it, and the loop
\* neither templates, post-processes nor compiles it.
C1_RequiredFieldsGuardRendering ==
    (CurIsRecord /\ Scanned(cur) /\ (BadRequired("name") \/ BadRequired("steps"))) =>
        /\ \A key \in {"name", "steps"} :
              BadRequired(key) =>
                 \E i \in DOMAIN errors : IsRequiredDefect(errors[i]) /\ errors[i].key = key
        /\ recipe = NoRecipe
        /\ printed = "Invalid recipe"
        /\ ~Rendering
        /\ \A d \in temp_dest.docs : d.name # idx - 1

C1_Witness ==
    /\ CurIsRecord
    /\ Scanned(cur)
    /\ "steps" \in DOMAIN cur.value
    /\ cur.value["steps"] = <<>>
    /\ "name" \notin DOMAIN cur.value
    /\ Len(errors) = 2
    /\ pc = "walk"
    /\ idx = 2

\* C5: the process stops before the last file was visited only when the
\* compiler returned a non-zero status.
C5_OnlyCompilerStopsBatch ==
    (Stopped /\ idx <= nfiles) => rc # 0

\* C6: a non-zero status of the compiler ends the process with status 1 at
\* that file: the loop does not advance, no document is stored for the file
\* and the destination is left as it was.
C6_CompilerFailureAborts ==
    rc # 0 =>
        /\ pc = "aborted"
        /\ exit_status = 1
        /\ idx <= nfiles
        /\ ~final_copy
        /\ dest \in {NoTree, OldTree}
        /\ \A d \in temp_dest.docs : d.name < idx

C6_Witness ==
    /\ rc # 0
    /\ pc = "aborted"
    /\ idx < nfiles
    /\ dest = OldTree

\* C7: a run in which the compiler never fails ends with status 0 and leaves
\* in the destination exactly the documents of the valid scanned files, each
\* in the directory of its source file relative to src_dir.
C7_DestinationMirrorsValidFiles ==
    (Stopped /\ rc = 0) =>
        /\ pc = "done"
        /\ exit_status = 0
        /\ dest.exists
        /\ dest.docs = expected

====
